---- MODULE Spec2Model ----
(***************************************************************************)
(* Model of MultiModelCADAnalyzer (backend/app/cad/multi_model_analyzer.py) *)
(* : one analyzer object, one run of comprehensive_analysis on it, followed *)
(* by format_for_rag on the returned result.                                *)
(*                                                                          *)
(* Python strings are sequences of tokens (each token an opaque piece of    *)
(* text); a Python value is a record [type, val] so that None and str stay  *)
(* distinguishable, as they are for len(), truthiness and str.join.         *)
(* Dicts that keep insertion order are sequences of [key, value] records.   *)
(***************************************************************************)
EXTENDS Integers, Sequences, FiniteSets, TLC

VARIABLES
    pc,                  \* position of the caller: constructed, passes, returned, raised, rendered
                         \* (and opened, resized: inside preprocess_image)
    openrouter_api_key,  \* self.openrouter_api_key ("" when not configured)
    png_path,            \* argument of comprehensive_analysis
    model_id,            \* argument of comprehensive_analysis
    image_bytes,         \* local of comprehensive_analysis
    provider,            \* local of comprehensive_analysis
    idx,                 \* number of loop iterations of the pass loop completed
    results,             \* the results dict of comprehensive_analysis
    calls,               \* adapter invocations, in order
    requests,            \* HTTP POST bodies sent by analyze_with_openrouter, in order
    log,                 \* observable events in order: preprocess, call, done, sleep
    raised,              \* the error raised to the caller (None when none)
    doc,                 \* outcome of format_for_rag on the returned results
    src_size,            \* size of the image as opened by preprocess_image (<<0, 0>>: none opened)
    img_size             \* img.size in preprocess_image

vars == <<pc, openrouter_api_key, png_path, model_id, image_bytes, provider, idx,
          results, calls, requests, log, raised, doc, src_size, img_size>>

-----------------------------------------------------------------------------
(* Python values *)

Str(s) == [type |-> "str", val |-> s]

None == [type |-> "NoneType", val |-> <<>>]

Bytes(s) == [type |-> "bytes", val |-> s]

\* bool(v) for the values that occur: None and "" are falsy
Truthy(v) == v.type = "str" /\ v.val # <<>>

\* f"{v}" : str(None) is the text "None"
Format(v) == IF v.type = "str" THEN v.val ELSE <<"None">>

EmptyDict == [k \in {} |-> None]

\* d.get(k, default) on a dict modelled as a function
Get(d, k, default) == IF k \in DOMAIN d THEN d[k] ELSE default

RECURSIVE Keys(_)
\* list(d.keys()) of an insertion-ordered dict
Keys(d) == IF d = <<>> THEN <<>> ELSE <<d[1].key>> \o Keys(Tail(d))

KeySet(d) == {d[i].key : i \in 1..Len(d)}

\* d[k] = v on an insertion-ordered dict: an existing key keeps its position
DictSet(d, k, v) ==
    IF k \in KeySet(d)
    THEN [i \in 1..Len(d) |-> IF d[i].key = k THEN [key |-> k, value |-> v] ELSE d[i]]
    ELSE Append(d, [key |-> k, value |-> v])

-----------------------------------------------------------------------------
(* The registry and the passes *)

MODELS ==
    [m \in {"gemini-2.5-flash", "gemini-2.5-pro", "xiaomi/mimo-v2-flash:free",
            "deepseek/deepseek-r1", "nvidia/nemotron-nano-12b-v2-vl:free",
            "qwen/qwen3-235b-a22b"} |->
       CASE m = "gemini-2.5-flash" ->
              [name |-> "Gemini 2.5 Flash", provider |-> "gemini",
               capabilities |-> {"vision", "fast"}]
         [] m = "gemini-2.5-pro" ->
              [name |-> "Gemini 2.5 Pro", provider |-> "gemini",
               capabilities |-> {"vision", "reasoning", "advanced"}]
         [] m = "xiaomi/mimo-v2-flash:free" ->
              [name |-> "Xiaomi MiMo V2 Flash", provider |-> "openrouter",
               capabilities |-> {"vision", "fast"}]
         [] m = "deepseek/deepseek-r1" ->
              [name |-> "DeepSeek R1", provider |-> "openrouter",
               capabilities |-> {"reasoning", "advanced"}]
         [] m = "nvidia/nemotron-nano-12b-v2-vl:free" ->
              [name |-> "NVIDIA Nemotron Nano VL", provider |-> "openrouter",
               capabilities |-> {"vision", "technical"}]
         [] OTHER ->
              [name |-> "Qwen 3 235B", provider |-> "openrouter",
               capabilities |-> {"reasoning", "advanced"}]]

\* a model id that is not a key of MODELS
UnlistedModel == "unlisted/model"

ModelIds == DOMAIN MODELS \cup {UnlistedModel}

\* self.MODELS.get(model_id, {})
ModelInfo(mid) == IF mid \in DOMAIN MODELS THEN MODELS[mid] ELSE EmptyDict

\* self.analysis_passes, in insertion order; each prompt is one token
analysis_passes ==
    << [key |-> "overview",     value |-> <<"prompt:overview">>],
       [key |-> "technical",    value |-> <<"prompt:technical">>],
       [key |-> "components",   value |-> <<"prompt:components">>],
       [key |-> "measurements", value |-> <<"prompt:measurements">>],
       [key |-> "quality",      value |-> <<"prompt:quality">>] >>

total_passes == Len(analysis_passes)

PassNames == KeySet(analysis_passes)

\* str.upper() on the pass names
Upper(name) ==
    CASE name = "overview"     -> "OVERVIEW"
      [] name = "technical"    -> "TECHNICAL"
      [] name = "components"   -> "COMPONENTS"
      [] name = "measurements" -> "MEASUREMENTS"
      [] OTHER                 -> "QUALITY"

-----------------------------------------------------------------------------
(* Python floats (IEEE 754 binary64, round to nearest, ties to even) for    *)
(* the arithmetic of lines 162-163.  A positive float is [man, exp]: man is *)
(* the significand as a sequence of Mantissa bits, most significant first   *)
(* and leading bit 1, and the value is man * 2^exp.                         *)

\* bits of the significand of a Python float
Mantissa == 53

RECURSIVE BitsOf(_)
\* the binary digits of a positive integer, most significant first
BitsOf(n) == IF n < 2 THEN <<n>> ELSE Append(BitsOf(n \div 2), n % 2)

RECURSIVE ValueOf(_)
\* the integer a (short) bit sequence denotes
ValueOf(bits) ==
    IF bits = <<>> THEN 0
    ELSE 2 * ValueOf(SubSeq(bits, 1, Len(bits) - 1)) + bits[Len(bits)]

Zeros(n) == [i \in 1..n |-> 0]

\* without leading zeros
Strip(bits) ==
    IF \A i \in 1..Len(bits) : bits[i] = 0 THEN <<>>
    ELSE LET first == CHOOSE i \in 1..Len(bits) :
                         bits[i] = 1 /\ \A j \in 1..(i - 1) : bits[j] = 0
         IN  SubSeq(bits, first, Len(bits))

RECURSIVE DivBits(_, _, _)
\* long division of a bit sequence by a small integer d, with r the
\* remainder carried in: the quotient bits and the final remainder.  The
\* sequence is divided half by half, the remainder of the left half carried
\* into the right one.
DivBits(bits, d, r) ==
    IF bits = <<>> THEN [quot |-> <<>>, rem |-> r]
    ELSE IF Len(bits) = 1
    THEN LET cur == 2 * r + bits[1]
         IN  IF cur >= d THEN [quot |-> <<1>>, rem |-> cur - d]
             ELSE [quot |-> <<0>>, rem |-> cur]
    ELSE LET half  == Len(bits) \div 2
             left  == DivBits(SubSeq(bits, 1, half), d, r)
             right == DivBits(SubSeq(bits, half + 1, Len(bits)), d, left.rem)
         IN  [quot |-> left.quot \o right.quot, rem |-> right.rem]

Reverse(bits) == [i \in 1..Len(bits) |-> bits[Len(bits) + 1 - i]]

RECURSIVE MulCarry(_, _, _)
\* a bit sequence, least significant bit first, times a small integer n plus
\* the carry c: the product bits of the same length and the carry out.  The
\* low half is multiplied first and its carry goes into the high half.
MulCarry(bits, n, c) ==
    IF bits = <<>> THEN [prod |-> <<>>, carry |-> c]
    ELSE IF Len(bits) = 1
    THEN LET cur == bits[1] * n + c
         IN  [prod |-> <<cur % 2>>, carry |-> cur \div 2]
    ELSE LET half == Len(bits) \div 2
             low  == MulCarry(SubSeq(bits, 1, half), n, c)
             high == MulCarry(SubSeq(bits, half + 1, Len(bits)), n, low.carry)
         IN  [prod |-> low.prod \o high.prod, carry |-> high.carry]

\* a bit sequence (most significant bit first) times a small integer n
MulBits(bits, n) ==
    LET m == MulCarry(Reverse(bits), n, 0)
    IN  IF m.carry = 0 THEN Reverse(m.prod) ELSE BitsOf(m.carry) \o Reverse(m.prod)

\* a bit sequence plus one
Increment(bits) ==
    IF \A i \in 1..Len(bits) : bits[i] = 1 THEN <<1>> \o Zeros(Len(bits))
    ELSE LET last == CHOOSE i \in 1..Len(bits) :
                        bits[i] = 0 /\ \A j \in (i + 1)..Len(bits) : bits[j] = 1
         IN  SubSeq(bits, 1, last - 1) \o <<1>> \o Zeros(Len(bits) - last)

\* the float nearest to bits * 2^exp (bits without leading zeros, not empty);
\* sticky says that the exact value lies strictly above bits * 2^exp
RoundToFloat(bits, exp, sticky) ==
    LET n == Len(bits)
    IN  IF n <= Mantissa
        THEN [man |-> bits \o Zeros(Mantissa - n), exp |-> exp - (Mantissa - n)]
        ELSE LET keep  == SubSeq(bits, 1, Mantissa)
                 guard == bits[Mantissa + 1]
                 rest  == sticky \/ \E i \in (Mantissa + 2)..n : bits[i] = 1
                 up    == guard = 1 /\ (rest \/ keep[Mantissa] = 1)
                 man   == IF up THEN Increment(keep) ELSE keep
             IN  IF Len(man) > Mantissa
                 THEN [man |-> SubSeq(man, 1, Mantissa), exp |-> exp + (n - Mantissa) + 1]
                 ELSE [man |-> man, exp |-> exp + (n - Mantissa)]

\* a / b of two positive ints (true division is correctly rounded)
TrueDiv(a, b) ==
    LET shift == Mantissa + 2 + Len(BitsOf(b))
        qr    == DivBits(BitsOf(a) \o Zeros(shift), b, 0)
    IN  RoundToFloat(Strip(qr.quot), 0 - shift, qr.rem # 0)

\* n * f for a positive int n and a float f
MulInt(n, f) == RoundToFloat(Strip(MulBits(f.man, n)), f.exp, FALSE)

\* int(f): truncation of a positive float below 2^Mantissa
IntOf(f) ==
    IF f.exp >= 0 THEN ValueOf(f.man \o Zeros(f.exp))
    ELSE IF Mantissa + f.exp <= 0 THEN 0
    ELSE ValueOf(SubSeq(f.man, 1, Mantissa + f.exp))

-----------------------------------------------------------------------------
(* preprocess_image *)

\* line 160
max_size == 4096

Longer(size) == IF size[1] >= size[2] THEN size[1] ELSE size[2]

Shorter(size) == IF size[1] >= size[2] THEN size[2] ELSE size[1]

\* lines 159-164: img.size after the "resize if too large" step
Resize(size) ==
    IF Longer(size) > max_size
    THEN LET ratio == TrueDiv(max_size, Longer(size))
         IN  << IntOf(MulInt(size[1], ratio)), IntOf(MulInt(size[2], ratio)) >>
    ELSE size

Paths == {"drawing.png", "notes.txt"}

\* the paths Image.open can decode
Decodable == {"drawing.png"}

\* the size of the image stored at a decodable path
SizeOf(path) == <<6000, 4000>>

\* preprocess_image answering an undecodable file with empty bytes
preprocess_image_swallowing(path) ==
    IF path \in Decodable
    THEN [raised |-> FALSE, value |-> Bytes(<<"png-bytes-of", path>>)]
    ELSE [raised |-> FALSE, value |-> Bytes(<<>>)]

\* Outcome of a call: raised says whether it raised; value is the returned
\* value, or the str(e) of the error raised.
preprocess_image(path) ==
    IF path \in Decodable
    THEN [raised |-> FALSE, value |-> Bytes(<<"png-bytes-of", path>>)]
    ELSE [raised |-> TRUE,  value |-> Str(<<"cannot identify image file">>)]

-----------------------------------------------------------------------------
(* The provider adapters.  What the remote model answers is not decided by  *)
(* this program: each adapter is the set of outcomes a call can have.       *)

\* What a remote model can answer to a prompt: text, empty text, or no text
\* at all (response.text is None when the candidate carries no text part;
\* message.content is null in the chat-completions JSON).
Replies(prompt) == {Str(<<"reply-to", prompt[1]>>), Str(<<>>), None}

GeminiErrors == {"genai APIError"}

\* raise_for_status, and the KeyError/IndexError of data['choices'][0]['message']['content']
OpenRouterErrors == {"HTTPStatusError", "KeyError: 'choices'"}

analyze_with_gemini(image, prompt, mid) ==
    {[adapter |-> "gemini", raised |-> FALSE, value |-> v, sent |-> <<>>] :
        v \in Replies(prompt)}
    \cup
    {[adapter |-> "gemini", raised |-> TRUE, value |-> Str(<<e>>), sent |-> <<>>] :
        e \in GeminiErrors}

\* base64.b64encode(image_bytes).decode('utf-8')
b64encode(image) == <<"base64-of">> \o image.val

\* the messages list built without looking at the capability set
OpenRouterMessages_always_image(image, prompt, mid) ==
    << [role |-> "user",
        content |-> [type |-> "list",
                     val |-> << [type |-> "text", text |-> prompt],
                                [type |-> "image_url",
                                 url |-> <<"data:image/png;base64,">>
                                         \o b64encode(image)] >>]] >>

\* the messages list of the request
OpenRouterMessages(image, prompt, mid) ==
    LET model_info == ModelInfo(mid)
        has_vision == "vision" \in Get(model_info, "capabilities", {})
    IN  IF has_vision
        THEN << [role |-> "user",
                 content |-> [type |-> "list",
                              val |-> << [type |-> "text", text |-> prompt],
                                         [type |-> "image_url",
                                          url |-> <<"data:image/png;base64,">>
                                                  \o b64encode(image)] >>]] >>
        ELSE << [role |-> "user",
                 content |-> Str(<<"Based on this CAD drawing analysis prompt:">>
                                 \o prompt
                                 \o <<"Provide a detailed technical response.">>)] >>

\* analyze_with_openrouter without the credential check of lines 191-192
analyze_with_openrouter_unchecked(key, image, prompt, mid) ==
    LET body == [model |-> mid, messages |-> OpenRouterMessages(image, prompt, mid)]
    IN  {[adapter |-> "openrouter", raised |-> FALSE, value |-> v, sent |-> <<body>>] :
            v \in Replies(prompt)}
        \cup
        {[adapter |-> "openrouter", raised |-> TRUE, value |-> Str(<<e>>),
          sent |-> <<body>>] : e \in OpenRouterErrors}

analyze_with_openrouter(key, image, prompt, mid) ==
    IF key = ""
    THEN {[adapter |-> "openrouter", raised |-> TRUE,
           value |-> Str(<<"OpenRouter API key not configured">>), sent |-> <<>>]}
    ELSE LET body == [model |-> mid, messages |-> OpenRouterMessages(image, prompt, mid)]
         IN  {[adapter |-> "openrouter", raised |-> FALSE, value |-> v, sent |-> <<body>>] :
                 v \in Replies(prompt)}
             \cup
             {[adapter |-> "openrouter", raised |-> TRUE, value |-> Str(<<e>>),
               sent |-> <<body>>] : e \in OpenRouterErrors}

\* the dispatch with the 'openrouter' tag misspelt: such models fall through
\* to the Unknown provider error and no adapter is invoked
PassDispatch_tag_typo(prov, key, image, prompt, mid) ==
    IF prov = "gemini" THEN analyze_with_gemini(image, prompt, mid)
    ELSE IF prov = "open_router" THEN analyze_with_openrouter(key, image, prompt, mid)
    ELSE {[adapter |-> "none", raised |-> TRUE,
           value |-> Str(<<"Unknown provider: ", prov>>), sent |-> <<>>]}

\* lines 280-285: the dispatch inside the try block of a pass
PassDispatch(prov, key, image, prompt, mid) ==
    IF prov = "gemini" THEN analyze_with_gemini(image, prompt, mid)
    ELSE IF prov = "openrouter" THEN analyze_with_openrouter(key, image, prompt, mid)
    ELSE {[adapter |-> "none", raised |-> TRUE,
           value |-> Str(<<"Unknown provider: ", prov>>), sent |-> <<>>]}

\* the synthesis dispatch with a test for 'gemini' that never matches
SynthesisDispatch_never_gemini(prov, key, image, prompt, mid) ==
    analyze_with_openrouter(key, image, prompt, mid)

\* lines 333-336: the dispatch inside _generate_synthesis
SynthesisDispatch(prov, key, image, prompt, mid) ==
    IF prov = "gemini" THEN analyze_with_gemini(image, prompt, mid)
    ELSE analyze_with_openrouter(key, image, prompt, mid)

\* the record of an adapter invocation and of how it ended
Call(out, what, image, prompt, mid) ==
    IF out.adapter = "none" THEN <<>>
    ELSE << [adapter |-> out.adapter, what |-> what, image |-> image,
             prompt |-> prompt, model |-> mid,
             raised |-> out.raised, value |-> out.value] >>

-----------------------------------------------------------------------------
(* comprehensive_analysis *)

\* lines 261-268
NewResults(path, mid) ==
    [image_path |-> path,
     model_used |-> mid,
     model_info |-> ModelInfo(mid),
     analyses   |-> <<>>,
     summary    |-> EmptyDict,
     errors     |-> <<>>]

\* lines 271-272
ResolveProvider(mid) == Get(ModelInfo(mid), "provider", "gemini")

\* lines 279-293: what one pass leaves in results, given the outcome of its
\* dispatch.  The value is stored (287) before len(analysis) is taken (288),
\* and len() of a value that is not a str raises inside the try block.
RecordPass(res, pass_name, out) ==
    IF out.raised
    THEN [res EXCEPT !.errors = Append(@, [pass |-> pass_name, error |-> out.value])]
    ELSE LET stored == [res EXCEPT !.analyses = DictSet(@, pass_name, out.value)]
         IN  IF out.value.type = "str"
             THEN stored
             ELSE [stored EXCEPT !.errors =
                      Append(@, [pass |-> pass_name,
                                 error |-> Str(<<"object of type 'NoneType' has no len()">>)])]

\* the error of a pass's try block that its except clause does not catch, with
\* len(analysis) taken outside the try block
PassEscape_len_after_try(out) ==
    IF ~out.raised /\ out.value.type # "str"
    THEN Str(<<"object of type 'NoneType' has no len()">>)
    ELSE None

\* line 290: `except Exception` catches whatever the try block of lines 279-288
\* raises, the adapter's error as well as the TypeError of len(): no error of
\* a pass escapes to the caller
PassEscape(out) == None

\* every pass but the last is followed by a pause
PauseAfter_every_pass(i) == << <<"sleep", "1s">> >>

\* lines 295-297
PauseAfter(i) == IF i < total_passes THEN << <<"sleep", "1s">> >> ELSE <<>>

RECURSIVE Combined(_)
\* lines 314-317: "\n\n".join of one block per entry of analyses
Combined(analyses) ==
    IF analyses = <<>> THEN <<>>
    ELSE LET block == <<"=== ", Upper(analyses[1].key), " ===", "\n">>
                      \o Format(analyses[1].value)
         IN  IF Len(analyses) = 1 THEN block
             ELSE block \o <<"\n\n">> \o Combined(Tail(analyses))

\* lines 319-330
synthesis_prompt(analyses) ==
    <<"synthesis:head">> \o Combined(analyses) \o <<"synthesis:tail">>

\* _generate_synthesis letting the adapter's error escape to the except
\* clause of lines 304-306, which keeps only a message
SynthesisSummary_escaping(analyses, out) ==
    IF out.raised
    THEN [executive_summary |-> Str(<<"Synthesis generation failed">>)]
    ELSE [executive_summary |-> out.value,
          total_analysis_length |-> Len(Combined(analyses)),
          synthesis_success |-> TRUE]

\* lines 338-348: the dict _generate_synthesis returns for an adapter outcome
\* (total_analysis_length counts tokens of combined)
SynthesisSummary(analyses, out) ==
    IF out.raised
    THEN [executive_summary |-> Str(<<"Synthesis failed">>),
          error |-> out.value,
          synthesis_success |-> FALSE]
    ELSE [executive_summary |-> out.value,
          total_analysis_length |-> Len(Combined(analyses)),
          synthesis_success |-> TRUE]

-----------------------------------------------------------------------------
(* format_for_rag *)

\* "\n".join(lines): raises TypeError unless every item is a str
RECURSIVE JoinTokens(_)
JoinTokens(lines) ==
    IF lines = <<>> THEN <<>>
    ELSE IF Len(lines) = 1 THEN lines[1].val
    ELSE lines[1].val \o <<"\n">> \o JoinTokens(Tail(lines))

Join(lines) ==
    IF \E i \in 1..Len(lines) : lines[i].type # "str"
    THEN [raised |-> TRUE,
          value |-> Str(<<"sequence item: expected str instance, NoneType found">>)]
    ELSE [raised |-> FALSE, value |-> Str(JoinTokens(lines))]

\* lines 352-362
HeaderLines(analysis_results) ==
    LET model_info == Get(analysis_results, "model_info", EmptyDict)
    IN  << Str(<<"=*80">>),
           Str(<<"COMPREHENSIVE CAD DRAWING ANALYSIS">>),
           Str(<<"=*80">>),
           Str(<<>>),
           Str(<<"Model: ", Get(model_info, "name", "Unknown")>>),
           Str(<<"Provider: ", Get(model_info, "provider", "Unknown")>>),
           Str(<<>>) >>

\* lines 364-369
SummaryLines(analysis_results) ==
    IF /\ "summary" \in DOMAIN analysis_results
       /\ Truthy(Get(analysis_results.summary, "executive_summary", None))
    THEN << Str(<<"EXECUTIVE SUMMARY">>),
            Str(<<"-*80">>),
            analysis_results.summary.executive_summary,
            Str(<<>>) >>
    ELSE <<>>

RECURSIVE PassLines(_)
\* lines 376-380
PassLines(analyses) ==
    IF analyses = <<>> THEN <<>>
    ELSE << Str(<<"\n", Upper(analyses[1].key), " ANALYSIS">>),
            Str(<<"-*80">>),
            analyses[1].value,
            Str(<<>>) >>
         \o PassLines(Tail(analyses))

\* lines 350-382
format_for_rag(analysis_results) ==
    Join(HeaderLines(analysis_results)
         \o SummaryLines(analysis_results)
         \o << Str(<<"DETAILED ANALYSES">>), Str(<<"=*80">>), Str(<<>>) >>
         \o PassLines(Get(analysis_results, "analyses", <<>>)))

-----------------------------------------------------------------------------
(* The state machine *)

\* The analyzer has been constructed (lines 73-91): construction does not
\* look at whether the chat-completions credential is present.
Init ==
    /\ pc = "constructed"
    /\ openrouter_api_key \in {"", "sk-or-key"}
    /\ png_path = ""
    /\ model_id = ""
    /\ image_bytes = None
    /\ provider = ""
    /\ idx = 0
    /\ results = EmptyDict
    /\ calls = <<>>
    /\ requests = <<>>
    /\ log = <<>>
    /\ raised = None
    /\ doc = [raised |-> FALSE, value |-> None]
    /\ src_size = <<0, 0>>
    /\ img_size = <<0, 0>>

\* lines 247-272: the call, preprocessing, the results dict, the provider
Begin ==
    /\ pc = "constructed"
    /\ \E path \in Paths, mid \in ModelIds :
          LET pre == preprocess_image(path)
          IN  /\ png_path' = path
              /\ model_id' = mid
              /\ log' = Append(log, <<"preprocess", path>>)
              /\ IF pre.raised
                 THEN /\ pc' = "raised"
                      /\ raised' = pre.value
                      /\ UNCHANGED <<image_bytes, results, provider, src_size, img_size>>
                 ELSE /\ pc' = "passes"
                      /\ image_bytes' = pre.value
                      /\ results' = NewResults(path, mid)
                      /\ provider' = ResolveProvider(mid)
                      /\ src_size' = SizeOf(path)
                      /\ img_size' = Resize(SizeOf(path))
                      /\ UNCHANGED raised
    /\ UNCHANGED <<openrouter_api_key, idx, calls, requests, doc>>

\* lines 276-297: one iteration of the pass loop
RunPass ==
    /\ pc = "passes"
    /\ idx < total_passes
    /\ LET pass_name == analysis_passes[idx + 1].key
           prompt    == analysis_passes[idx + 1].value
       IN  \E out \in PassDispatch(provider, openrouter_api_key, image_bytes, prompt, model_id) :
              /\ results' = RecordPass(results, pass_name, out)
              /\ calls' = calls \o Call(out, pass_name, image_bytes, prompt, model_id)
              /\ requests' = requests \o out.sent
              /\ log' = log \o << <<"call", pass_name>>, <<"done", pass_name>> >>
                            \o (IF PassEscape(out) = None THEN PauseAfter(idx + 1) ELSE <<>>)
              /\ pc' = IF PassEscape(out) = None THEN pc ELSE "raised"
              /\ raised' = IF PassEscape(out) = None THEN raised ELSE PassEscape(out)
    /\ idx' = idx + 1
    /\ UNCHANGED <<openrouter_api_key, png_path, model_id, image_bytes, provider, doc,
                   src_size, img_size>>

\* lines 299-310 with a non-empty analyses dict: _generate_synthesis, return.
\* _generate_synthesis catches every error of its adapter call itself, so the
\* except clause of lines 304-306 has nothing to catch.
SynthesizeAndReturn ==
    /\ pc = "passes"
    /\ idx = total_passes
    /\ results.analyses # <<>>
    /\ LET prompt == synthesis_prompt(results.analyses)
       IN  \E out \in SynthesisDispatch(provider, openrouter_api_key, image_bytes, prompt,
                                        model_id) :
              /\ results' = [results EXCEPT !.summary = SynthesisSummary(results.analyses, out)]
              /\ calls' = calls \o Call(out, "synthesis", image_bytes, prompt, model_id)
              /\ requests' = requests \o out.sent
              /\ log' = log \o << <<"call", "synthesis">>, <<"done", "synthesis">> >>
    /\ pc' = "returned"
    /\ UNCHANGED <<openrouter_api_key, png_path, model_id, image_bytes, provider, idx,
                   raised, doc, src_size, img_size>>

\* lines 299-310 with an empty analyses dict
ReturnWithoutSynthesis ==
    /\ pc = "passes"
    /\ idx = total_passes
    /\ results.analyses = <<>>
    /\ pc' = "returned"
    /\ UNCHANGED <<openrouter_api_key, png_path, model_id, image_bytes, provider, idx,
                   results, calls, requests, log, raised, doc, src_size, img_size>>

\* the caller renders the returned results
FormatForRag ==
    /\ pc = "returned"
    /\ doc' = format_for_rag(results)
    /\ pc' = "rendered"
    /\ UNCHANGED <<openrouter_api_key, png_path, model_id, image_bytes, provider, idx,
                   results, calls, requests, log, raised, src_size, img_size>>

Next ==
    \/ Begin
    \/ RunPass
    \/ SynthesizeAndReturn
    \/ ReturnWithoutSynthesis
    \/ FormatForRag

Spec == Init /\ [][Next]_vars

-----------------------------------------------------------------------------
(* preprocess_image on its own: an image of any of the sizes below has been *)
(* opened, converted and enhanced (lines 150-157); the step is the resize   *)
(* of lines 159-164.                                                        *)

\* sides from Below under max_size to Above over it
Below == 4

Above == 144

\* the other side of the images that are not square
OtherSide == 3000

Sides == (max_size - Below)..(max_size + Above)

\* landscape, square and portrait images
Sizes ==
    {<<a, OtherSide>> : a \in Sides} \cup {<<a, a>> : a \in Sides}
        \cup {<<OtherSide, a>> : a \in Sides}

InitResize ==
    /\ pc = "opened"
    /\ openrouter_api_key = ""
    /\ png_path = "drawing.png"
    /\ model_id = "gemini-2.5-flash"
    /\ image_bytes = None
    /\ provider = ""
    /\ idx = 0
    /\ results = EmptyDict
    /\ calls = <<>>
    /\ requests = <<>>
    /\ log = <<>>
    /\ raised = None
    /\ doc = [raised |-> FALSE, value |-> None]
    /\ src_size \in Sizes
    /\ img_size = src_size

\* lines 159-164
ResizeIfTooLarge ==
    /\ pc = "opened"
    /\ img_size' = Resize(img_size)
    /\ pc' = "resized"
    /\ UNCHANGED <<openrouter_api_key, png_path, model_id, image_bytes, provider, idx,
                   results, calls, requests, log, raised, doc, src_size>>

NextResize == ResizeIfTooLarge

SpecResize == InitResize /\ [][NextResize]_vars

-----------------------------------------------------------------------------
(* Vocabulary of the properties *)

\* a results dict exists
Created == pc \in {"passes", "returned", "rendered"}

\* comprehensive_analysis has returned its results dict
Returned == pc \in {"returned", "rendered"}

AnalysedPasses == KeySet(results.analyses)

FailedPasses == {results.errors[i].pass : i \in 1..Len(results.errors)}

AttemptedPasses == {analysis_passes[i].key : i \in 1..idx}

\* a pass succeeded when its try block ran to the end: it is not in the failure list
SucceededPasses == AttemptedPasses \ FailedPasses

PassCalls == SelectSeq(calls, LAMBDA c : c.what \in PassNames)

SynthesisCalls == SelectSeq(calls, LAMBDA c : c.what = "synthesis")

RECURSIVE SectionTitles(_)
\* the titles of the per-pass sections of a rendered text, in order
SectionTitles(t) ==
    IF Len(t) < 2 THEN <<>>
    ELSE IF t[2] = " ANALYSIS" THEN <<t[1]>> \o SectionTitles(Tail(Tail(t)))
    ELSE SectionTitles(Tail(t))

Tokens(t) == {t[i] : i \in 1..Len(t)}

HasSummarySection == ~doc.raised /\ "EXECUTIVE SUMMARY" \in Tokens(doc.value.val)

MissingKeyError == Str(<<"OpenRouter API key not configured">>)

-----------------------------------------------------------------------------
(* C1: at every point of a run, the pass names in analyses and those in the *)
(* failure list are disjoint, analyses has at most five entries, and the    *)
(* two collections together count the passes attempted so far.              *)
C1_DisjointAndCovering ==
    Created =>
        /\ AnalysedPasses \cap FailedPasses = {}
        /\ Len(results.analyses) <= total_passes
        /\ Len(results.analyses) + Len(results.errors) = idx

(* C2: synthesis is invoked exactly when at least one pass succeeded; with  *)
(* no successful pass there is no synthesis call and the summary is empty.  *)
C2_SynthesisIffSuccess ==
    Returned =>
        /\ (SynthesisCalls # <<>>) <=> (SucceededPasses # {})
        /\ (SucceededPasses = {}) => (results.summary = EmptyDict)

(* C3: a model id that is not in the registry aborts the run before any     *)
(* pass: no adapter call is made and no results are returned.               *)
C3_UnlistedModelAborts ==
    (model_id = UnlistedModel) => (calls = <<>> /\ ~Returned)

(* C4: after preprocessing, the adapter is invoked once per pass, in the    *)
(* declared order, each call ending before the next starts, whatever the    *)
(* earlier passes did; the run returns only after all five.                 *)
C4_EveryPassOnceInOrder ==
    Created =>
        /\ Len(PassCalls) = idx
        /\ \A i \in 1..Len(PassCalls) : PassCalls[i].what = analysis_passes[i].key
        /\ Returned => idx = total_passes
        /\ \A i \in 1..Len(log) :
              log[i][1] = "call" => (i < Len(log) /\ log[i + 1] = <<"done", log[i][2]>>)

\* a run has returned in which the first pass failed and the last was still served
C4_Witness ==
    /\ Returned
    /\ "overview" \in FailedPasses
    /\ "quality" \in AnalysedPasses
    /\ PassCalls[5].what = "quality"

(* C5: the rendered document has an EXECUTIVE SUMMARY section only if       *)
(* synthesis succeeded with non-empty text.                                 *)
C5_SummarySectionOnlyOnSuccess ==
    (pc = "rendered" /\ HasSummarySection) =>
        /\ Get(results.summary, "synthesis_success", FALSE)
        /\ Truthy(Get(results.summary, "executive_summary", None))

(* C6: when the synthesis adapter call raises, the run still returns, the   *)
(* summary is the fallback message, the error text and a false success      *)
(* flag, and synthesis leaves analyses and the failure list as the fifth    *)
(* pass left them.                                                          *)
C6_SynthesisFailureIsContained ==
    /\ [](\A i \in 1..Len(calls) :
            (calls[i].what = "synthesis" /\ calls[i].raised) =>
                /\ Returned
                /\ raised = None
                /\ results.summary = [executive_summary |-> Str(<<"Synthesis failed">>),
                                      error |-> calls[i].value,
                                      synthesis_success |-> FALSE])
    /\ [][(pc = "passes" /\ idx = total_passes) =>
            /\ pc' = "returned"
            /\ results'.analyses = results.analyses
            /\ results'.errors = results.errors]_vars

\* a run has returned after a synthesis call that raised
C6_Witness ==
    /\ Returned
    /\ SynthesisCalls # <<>>
    /\ SynthesisCalls[1].raised
    /\ results.errors # <<>>

(* C7: when all five passes fail, analyses is empty, the failure list has   *)
(* one entry per pass in pass order, and synthesis is not attempted.        *)
C7_AllFail ==
    (Returned /\ FailedPasses = PassNames) =>
        /\ results.analyses = <<>>
        /\ Len(results.errors) = total_passes
        /\ \A i \in 1..Len(results.errors) : results.errors[i].pass = analysis_passes[i].key
        /\ SynthesisCalls = <<>>

(* C8: when exactly one pass succeeds, synthesis is attempted once and its  *)
(* prompt is built from that pass alone.                                    *)
C8_OneSuccess ==
    (Returned /\ Cardinality(SucceededPasses) = 1) =>
        /\ Len(SynthesisCalls) = 1
        /\ \A p \in SucceededPasses :
              SynthesisCalls[1].prompt =
                  synthesis_prompt(SelectSeq(results.analyses, LAMBDA e : e.key = p))
        /\ \A p \in FailedPasses : Upper(p) \notin Tokens(SynthesisCalls[1].prompt)

(* C9: without a chat-completions credential every chat-completions call    *)
(* raises the configuration error and sends nothing; a run on such a model  *)
(* ends with five such failures, no synthesis, and a report without         *)
(* per-pass or summary sections.                                            *)
C9_MissingCredential ==
    (openrouter_api_key = "") =>
        /\ requests = <<>>
        /\ \A i \in 1..Len(calls) :
              calls[i].adapter = "openrouter" =>
                  (calls[i].raised /\ calls[i].value = MissingKeyError)
        /\ (Returned /\ provider = "openrouter") =>
              /\ results.analyses = <<>>
              /\ results.errors =
                    [i \in 1..total_passes |->
                        [pass |-> analysis_passes[i].key, error |-> MissingKeyError]]
              /\ Len(calls) = total_passes
              /\ results.summary = EmptyDict
        /\ (pc = "rendered" /\ provider = "openrouter") =>
              /\ ~doc.raised
              /\ SectionTitles(doc.value.val) = <<>>
              /\ ~HasSummarySection

\* the report of a run on a chat-completions model without credential
C9_Witness ==
    /\ pc = "rendered"
    /\ openrouter_api_key = ""
    /\ provider = "openrouter"
    /\ Len(calls) = total_passes

(* C10: the rendered document has exactly one section per entry of          *)
(* analyses, in insertion order and titled by the pass name, and none for   *)
(* a pass of the failure list.                                              *)
C10_SectionsAreTheAnalyses ==
    (pc = "rendered") =>
        /\ ~doc.raised
        /\ SectionTitles(doc.value.val) =
              [i \in 1..Len(results.analyses) |-> Upper(results.analyses[i].key)]
        /\ \A p \in FailedPasses : Upper(p) \notin Tokens(doc.value.val)

-----------------------------------------------------------------------------
\* the events of the log of one kind
Events(kind) == SelectSeq(log, LAMBDA e : e[1] = kind)

\* preprocessing has succeeded in this run
Preprocessed == pc # "constructed" /\ png_path \in Decodable

(* C11: once preprocessing has succeeded the run never raises to its caller: *)
(* whatever the adapter calls return or raise, it is still running its       *)
(* passes and can take its next step, or it has returned its results.        *)
C11_NeverRaisesAfterPreprocessing ==
    Preprocessed =>
        /\ raised = None
        /\ Created
        /\ (pc = "passes") => ENABLED (RunPass \/ SynthesizeAndReturn \/ ReturnWithoutSynthesis)
        /\ Returned => (idx = total_passes /\ results # EmptyDict)

\* a run returned although a pass was answered with no text and the synthesis call raised
C11_Witness ==
    /\ Returned
    /\ \E i \in 1..Len(PassCalls) : ~PassCalls[i].raised /\ PassCalls[i].value = None
    /\ \E i \in 1..Len(PassCalls) : PassCalls[i].raised
    /\ SynthesisCalls # <<>> /\ SynthesisCalls[1].raised

(* C12: format_for_rag returns a text for every result comprehensive_analysis *)
(* can return, and never raises.                                              *)
C12_FormatIsTotal ==
    (pc = "rendered") => (~doc.raised /\ doc.value.type = "str")

\* a message content carries an image: an image_url part, or a data URI in its text
ContentHasImage(content) ==
    IF content.type = "list"
    THEN \E j \in 1..Len(content.val) : content.val[j].type = "image_url"
    ELSE {"data:image/png;base64,", "base64-of"} \cap Tokens(content.val) # {}

\* the request body of a chat-completions call is text-only: one user turn whose content is a str
TextOnly(body) ==
    /\ Len(body.messages) = 1
    /\ body.messages[1].content.type = "str"
    /\ ~ContentHasImage(body.messages[1].content)

HasVision(mid) == "vision" \in Get(ModelInfo(mid), "capabilities", {})

\* what C13 asks of one request body
ImageMatchesCapability(body) ==
    /\ HasVision(body.model) =>
          \E k \in 1..Len(body.messages) : ContentHasImage(body.messages[k].content)
    /\ ~HasVision(body.model) => TextOnly(body)

(* C13: a chat-completions request carries the image only when the model's   *)
(* capability set has 'vision'; for any other model id, one without registry *)
(* entry included, the request is a single text turn without image payload.   *)
(* Stated of every request a run has sent, and of every request the adapter   *)
(* builds for any model id and pass prompt when it is called on the           *)
(* constructed analyzer (that part reads no run state, so it is evaluated in  *)
(* the constructed state only).                                               *)
C13_ImageOnlyWithVision ==
    /\ \A i \in 1..Len(requests) : ImageMatchesCapability(requests[i])
    /\ pc = "constructed" =>
       \A mid \in ModelIds, p \in 1..total_passes :
          \A out \in analyze_with_openrouter("sk-or-key", Bytes(<<"png-bytes-of", "drawing.png">>),
                                             analysis_passes[p].value, mid) :
             \A k \in 1..Len(out.sent) : ImageMatchesCapability(out.sent[k])

\* a run on a model without vision has sent its five pass requests and its synthesis request
C13_Witness ==
    /\ Returned
    /\ model_id = "deepseek/deepseek-r1"
    /\ Len(requests) = total_passes + 1
    /\ \A i \in 1..Len(requests) : TextOnly(requests[i])

(* C14: an image whose longer side exceeds 4096 comes out with its longer   *)
(* side exactly 4096 and its shorter side less than one pixel from          *)
(* shorter * 4096 / longer; any other image keeps its dimensions.           *)
C14_ResizeToMaxSize ==
    (pc = "resized") =>
        IF Longer(src_size) > max_size
        THEN /\ Longer(img_size) = max_size
             /\ Shorter(img_size) * Longer(src_size) - Shorter(src_size) * max_size
                    < Longer(src_size)
             /\ Shorter(src_size) * max_size - Shorter(img_size) * Longer(src_size)
                    < Longer(src_size)
        ELSE img_size = src_size

C16_SynthesisUsesThePassAdapter ==
    \A i \in 1..Len(SynthesisCalls) :
        /\ Len(PassCalls) = total_passes
        /\ SynthesisCalls[i].model = model_id
        /\ SynthesisCalls[i].image = image_bytes
        /\ image_bytes = preprocess_image(png_path).value
        /\ \A j \in 1..Len(PassCalls) :
              /\ SynthesisCalls[i].adapter = PassCalls[j].adapter
              /\ SynthesisCalls[i].model = PassCalls[j].model
              /\ SynthesisCalls[i].image = PassCalls[j].image

\* synthesis has been served by the direct-vision adapter for a model id without registry entry
C16_Witness ==
    /\ Returned
    /\ model_id = UnlistedModel
    /\ SynthesisCalls # <<>>
    /\ SynthesisCalls[1].adapter = "gemini"

(* C17: preprocessing happens once per run and before anything else; when it *)
(* raises, the error reaches the caller, the run is over, and there has been *)
(* no adapter call, no request, no pause and no results dict.                *)
C17_PreprocessOnceAndFirst ==
    /\ (pc = "constructed") => (log = <<>> /\ calls = <<>>)
    /\ (pc # "constructed") =>
          /\ Len(Events("preprocess")) = 1
          /\ log[1] = <<"preprocess", png_path>>
    /\ (pc # "constructed" /\ png_path \notin Decodable) =>
          /\ pc = "raised"
          /\ raised = Str(<<"cannot identify image file">>)
          /\ calls = <<>>
          /\ requests = <<>>
          /\ Events("sleep") = <<>>
          /\ results = EmptyDict
          /\ ~ENABLED Next

\* preprocessing has raised to the caller
C17_Witness ==
    /\ pc = "raised"
    /\ png_path = "notes.txt"
    /\ raised # None

====
